---- MODULE Spec2Model ----
(***************************************************************************)
(* Model of the notebook/LaTeX preprocessing scripts:                      *)
(*   tools/latex_sanitize_notebook.py  (sanitize_notebook,                 *)
(*                                      _convert_math_delimiters)          *)
(*   tools/fix_pdf_metadata.py         (fix_pdf_metadata)                  *)
(*                                                                         *)
(* A Python str is modelled as a sequence of Unicode code points, so that  *)
(* str.split, str.replace, str.join, the "in" test and re.sub are computed *)
(* character by character, as Python computes them.                        *)
(***************************************************************************)
EXTENDS Integers, Sequences, FiniteSets, TLC

VARIABLES text, out1, out2, pc,
          nb, nb_rest, nb_out, changed, npc,
          tex, tex0, tex1, msg, runs

vars == <<text, out1, out2, pc, nb, nb_rest, nb_out, changed, npc,
          tex, tex0, tex1, msg, runs>>

textVars == <<text, out1, out2, pc>>
nbVars   == <<nb, nb_rest, nb_out, changed, npc>>
texVars  == <<tex, tex0, tex1, msg, runs>>

(***************************************************************************)
(* Bounds of the explored inputs.                                          *)
(***************************************************************************)
MaxTokens    == 4   \* tokens per markdown text (backticks, fences, delimiters)
MaxUniTokens == 2   \* characters of the Unicode table per text
MaxFenceTokens == 3 \* tokens in a fence body, and in the text after the fence
MaxFrags     == 2   \* fragments per cell source
MaxChunks    == 3   \* chunks per LaTeX file
MaxRuns      == 2   \* invocations of fix_pdf_metadata on one file

(***************************************************************************)
(* Python string primitives on code-point sequences.                       *)
(***************************************************************************)
\* s[i-1:].startswith(sub)  (i is 1-based)
StartsWithAt(s, i, sub) ==
    /\ i + Len(sub) - 1 <= Len(s)
    /\ \A k \in 1..Len(sub) : s[i + k - 1] = sub[k]

\* s.find(sub) + 1 : 1-based index of the leftmost occurrence, 0 if none
Find(s, sub) ==
    LET idx == {i \in 1..Len(s) : StartsWithAt(s, i, sub)}
    IN  IF idx = {} THEN 0 ELSE CHOOSE i \in idx : \A j \in idx : i <= j

\* sub in s
Contains(s, sub) == Find(s, sub) # 0

\* s.endswith(sub)
EndsWith(s, sub) ==
    /\ Len(sub) <= Len(s)
    /\ StartsWithAt(s, Len(s) - Len(sub) + 1, sub)

\* s.split(sep), sep non-empty: leftmost, non-overlapping separators
RECURSIVE split(_, _)
split(s, sep) ==
    LET i == Find(s, sep)
    IN  IF i = 0 THEN <<s>>
        ELSE <<SubSeq(s, 1, i - 1)>> \o split(SubSeq(s, i + Len(sep), Len(s)), sep)

\* s.replace(old, new), old non-empty: leftmost, non-overlapping occurrences
RECURSIVE replace(_, _, _)
replace(s, old, new) ==
    LET i == Find(s, old)
    IN  IF i = 0 THEN s
        ELSE SubSeq(s, 1, i - 1) \o new \o replace(SubSeq(s, i + Len(old), Len(s)), old, new)

\* sep.join(parts)
RECURSIVE join(_, _)
join(parts, sep) ==
    IF Len(parts) = 0 THEN <<>>
    ELSE IF Len(parts) = 1 THEN parts[1]
    ELSE parts[1] \o sep \o join(Tail(parts), sep)

(***************************************************************************)
(* latex_sanitize_notebook.py                                              *)
(***************************************************************************)
Fence    == <<96, 96, 96>>   \* "```"
Backtick == <<96>>           \* "`"
Newline  == <<10>>           \* "\n"

\* The four replacements applied to a piece of text outside code.
convert_prose(sub) ==
    LET s1 == replace(sub, <<92, 91>>, <<36, 36>>)   \* \[  ->  $$
        s2 == replace(s1,  <<92, 93>>, <<36, 36>>)   \* \]  ->  $$
        s3 == replace(s2,  <<92, 40>>, <<36>>)       \* \(  ->  $
        s4 == replace(s3,  <<92, 41>>, <<36>>)       \* \)  ->  $
    IN  s4

\* convert_part without the "inside inline code" skip
convert_part_all(part) ==
    join([j \in 1..Len(split(part, Backtick)) |->
             convert_prose(split(part, Backtick)[j])], Backtick)

\* The inner loop: split a part on "`", rewrite the even subparts, re-join.
convert_part(part) ==
    LET subparts == split(part, Backtick)
        fixed == [j \in 1..Len(subparts) |->
                     IF (j - 1) % 2 = 1 THEN subparts[j]
                     ELSE convert_prose(subparts[j])]
    IN  join(fixed, Backtick)

\* _convert_math_delimiters without the split on "```"
convert_math_delimiters_no_fences(t) == convert_part(t)

\* _convert_math_delimiters(text)
convert_math_delimiters(t) ==
    LET parts == split(t, Fence)
        fixed == [i \in 1..Len(parts) |->
                     IF (i - 1) % 2 = 1 THEN parts[i]
                     ELSE convert_part(parts[i])]
    IN  join(fixed, Fence)

\* unicode_fixes with the em dash written as two hyphens
unicode_fixes_double_dash ==
    << <<  <<160>>,   <<32>>            >>,
       <<  <<8216>>,  <<39>>            >>,
       <<  <<8217>>,  <<39>>            >>,
       <<  <<8220>>,  <<34>>            >>,
       <<  <<8221>>,  <<34>>            >>,
       <<  <<8211>>,  <<45>>            >>,
       <<  <<8212>>,  <<45, 45>>        >>,
       <<  <<8230>>,  <<46, 46, 46>>    >>,
       <<  <<8594>>,  <<45, 62>>        >>,
       <<  <<8658>>,  <<61, 62>>        >>,
       <<  <<8614>>,  <<124, 45, 62>>   >>,
       <<  <<8722>>,  <<45>>            >>,
       <<  <<8203>>,  <<>>              >>,
       <<  <<8204>>,  <<>>              >>,
       <<  <<8205>>,  <<>>              >>,
       <<  <<65279>>, <<>>              >>
    >>

\* The dict unicode_fixes, in insertion order: <<character, replacement>>.
unicode_fixes ==
    << <<  <<160>>,   <<32>>            >>,   \* NBSP -> " "
       <<  <<8216>>,  <<39>>            >>,   \* left single quote -> '
       <<  <<8217>>,  <<39>>            >>,   \* right single quote -> '
       <<  <<8220>>,  <<34>>            >>,   \* left double quote -> "
       <<  <<8221>>,  <<34>>            >>,   \* right double quote -> "
       <<  <<8211>>,  <<45>>            >>,   \* en dash -> -
       <<  <<8212>>,  <<45>>            >>,   \* em dash -> -
       <<  <<8230>>,  <<46, 46, 46>>    >>,   \* ellipsis -> ...
       <<  <<8594>>,  <<45, 62>>        >>,   \* right arrow -> ->
       <<  <<8658>>,  <<61, 62>>        >>,   \* double right arrow -> =>
       <<  <<8614>>,  <<124, 45, 62>>   >>,   \* maps-to arrow -> |->
       <<  <<8722>>,  <<45>>            >>,   \* minus -> -
       <<  <<8203>>,  <<>>              >>,   \* zero-width space -> ""
       <<  <<8204>>,  <<>>              >>,   \* zero-width non-joiner -> ""
       <<  <<8205>>,  <<>>              >>,   \* zero-width joiner -> ""
       <<  <<65279>>, <<>>              >>    \* zero-width no-break space -> ""
    >>

\* for uchar, replacement in unicode_fixes.items(): text = text.replace(...)
RECURSIVE apply_fixes(_, _)
apply_fixes(t, fixes) ==
    IF Len(fixes) = 0 THEN t
    ELSE apply_fixes(replace(t, fixes[1][1], fixes[1][2]), Tail(fixes))

fix_unicode(t) == apply_fixes(t, unicode_fixes)

\* sanitize_text with the two stages in the other order
sanitize_text_unicode_last(t) == fix_unicode(convert_math_delimiters(t))

\* sanitize_text with the Unicode fixes kept out of fenced code
sanitize_text_unicode_outside_fences(t) ==
    convert_math_delimiters(
        join([i \in 1..Len(split(t, Fence)) |->
                 IF (i - 1) % 2 = 1 THEN split(t, Fence)[i]
                 ELSE fix_unicode(split(t, Fence)[i])], Fence))

\* What sanitize_notebook computes from the full text of a markdown cell.
sanitize_text(t) == convert_math_delimiters(fix_unicode(t))

\* ''.join(source)
RECURSIVE flatten(_)
flatten(source) ==
    IF Len(source) = 0 THEN <<>> ELSE source[1] \o flatten(Tail(source))

\* lines -> [line0, "\n", line1, "\n", ..., lineN]
RECURSIVE interleave(_)
interleave(lines) ==
    IF Len(lines) = 1 THEN <<lines[1]>>
    ELSE <<lines[1], Newline>> \o interleave(Tail(lines))

\* reconstruct with the "\n" items left out
reconstruct_no_newlines(t, original_text) == split(t, Newline)

\* The list written back to cell['source'] when the text changed.
reconstruct(t, original_text) ==
    LET lines  == split(t, Newline)
        result == interleave(lines)
    IN  IF EndsWith(original_text, Newline) /\ ~EndsWith(t, Newline)
        THEN Append(result, Newline)
        ELSE result

\* The text of a cell's source: ''.join(source) for a list, source for a str.
source_text(source) ==
    IF source.is_list THEN flatten(source.val) ELSE source.val

\* One iteration of the loop over nb['cells'], whatever the cell type
sanitize_cell_any_type(cell) ==
    LET original == source_text(cell.source)
        t        == sanitize_text(original)
    IN  IF t = original THEN cell
        ELSE IF cell.source.is_list
        THEN [cell EXCEPT !.source.val = reconstruct(t, original)]
        ELSE [cell EXCEPT !.source.val = t]

\* One iteration of the loop over nb['cells'].
sanitize_cell(cell) ==
    IF cell.cell_type = "markdown"
    THEN LET original == source_text(cell.source)
             t        == sanitize_text(original)
         IN  IF t = original THEN cell
             ELSE IF cell.source.is_list
             THEN [cell EXCEPT !.source.val = reconstruct(t, original)]
             ELSE [cell EXCEPT !.source.val = t]
    ELSE cell

\* The assignment "changed = True" is reached for this cell.
cell_changed(cell) ==
    /\ cell.cell_type = "markdown"
    /\ sanitize_text(source_text(cell.source)) # source_text(cell.source)

(***************************************************************************)
(* Input texts.  A text is a concatenation of a few tokens; the tokens are *)
(* the markers the sanitizer looks for and the characters of its table.    *)
(***************************************************************************)
SeqsUpTo(S, n) == UNION {[1..k -> S] : k \in 0..n}

MathTokens ==
    { <<96>>,           \* `
      <<96, 96, 96>>,   \* ```
      <<92, 40>>,       \* \(
      <<92, 93>>,       \* \]
      <<92>>,           \* \
      <<40>>,           \* (
      <<120>>,          \* x
      <<8203>> }        \* zero-width space

MappedChars == {unicode_fixes[k][1] : k \in 1..Len(unicode_fixes)}

\* A run of table characters in prose, in an inline code span, in a fence.
Wrappers == { <<>>, <<96>>, <<96, 96, 96>> }

\* "price is — $5’s worth \(x\)"
ExampleText ==
    <<112, 114, 105, 99, 101, 32, 105, 115, 32, 8212, 32, 36, 53, 8217, 115,
      32, 119, 111, 114, 116, 104, 32, 92, 40, 120, 92, 41>>

MathTexts == {flatten(f) : f \in SeqsUpTo(MathTokens, MaxTokens)}
UniTexts ==
    {w \o flatten(f) \o w : w \in Wrappers, f \in SeqsUpTo(MappedChars, MaxUniTokens)}

\* Texts with a closed fence: a short lead, "```", a body, "```", a tail.
FenceTokens ==
    { <<96>>,           \* `
      <<92, 40>>,       \* \(
      <<120>> }         \* x

FenceTexts ==
    {lead \o Fence \o flatten(body) \o Fence \o flatten(tail) :
        lead \in FenceTokens \cup {<<>>},
        body \in SeqsUpTo(FenceTokens, MaxFenceTokens),
        tail \in SeqsUpTo(FenceTokens, MaxFenceTokens)}

Texts == MathTexts \cup UniTexts \cup FenceTexts \cup {ExampleText}

(***************************************************************************)
(* Specification SpecText: the sanitizer applied to the text of one        *)
(* markdown cell whose source is a string, then applied to its own output. *)
(***************************************************************************)
IdleNb ==
    nb = <<>> /\ nb_rest = <<>> /\ nb_out = <<>> /\ changed = FALSE /\ npc = "idle"
IdleTex == tex = <<>> /\ tex0 = <<>> /\ tex1 = <<>> /\ msg = "none" /\ runs = 0
IdleText == text = <<>> /\ out1 = <<>> /\ out2 = <<>> /\ pc = "idle"

InitText ==
    /\ text \in Texts
    /\ out1 = <<>>
    /\ out2 = <<>>
    /\ pc = "start"
    /\ IdleNb
    /\ IdleTex

\* First run: the cell's source becomes the sanitized text.
Sanitize ==
    /\ pc = "start"
    /\ out1' = sanitize_text(text)
    /\ pc' = "once"
    /\ UNCHANGED <<text, out2>>
    /\ UNCHANGED nbVars
    /\ UNCHANGED texVars

\* Second run, on the output of the first.
Resanitize ==
    /\ pc = "once"
    /\ out2' = sanitize_text(out1)
    /\ pc' = "twice"
    /\ UNCHANGED <<text, out1>>
    /\ UNCHANGED nbVars
    /\ UNCHANGED texVars

NextText == Sanitize \/ Resanitize

SpecText == InitText /\ [][NextText]_vars

(***************************************************************************)
(* Properties of the text sanitizer (checked under SpecText).              *)
(***************************************************************************)
\* "price is - $5's worth \(x\)"
ExampleAsClaimed ==
    <<112, 114, 105, 99, 101, 32, 105, 115, 32, 45, 32, 36, 53, 39, 115,
      32, 119, 111, 114, 116, 104, 32, 92, 40, 120, 92, 41>>

\* "price is - $5's worth $x$"
ExampleSanitized ==
    <<112, 114, 105, 99, 101, 32, 105, 115, 32, 45, 32, 36, 53, 39, 115,
      32, 119, 111, 114, 116, 104, 32, 36, 120, 36>>

\* C1 as stated: sanitizing the example text replaces the em dash and the
\* curly quote and leaves the \( \) delimiters as they were.
C1_ExampleKeepsDelimiters ==
    (pc # "start" /\ text = ExampleText) => out1 = ExampleAsClaimed

\* C1 amended: sanitizing the example text replaces the em dash and the curly
\* quote and rewrites \( and \) to $.
C1_ExampleConvertsDelimiters ==
    (pc # "start" /\ text = ExampleText) => out1 = ExampleSanitized

C1_Witness == pc = "once" /\ text = ExampleText /\ out1 = ExampleSanitized

\* C2: sanitize(sanitize(x)) = sanitize(x) for every text x.
C2_Idempotent == pc = "twice" => out2 = out1

\* a text that both stages rewrite, sanitized twice
C2_Witness ==
    /\ pc = "twice"
    /\ text = <<8203, 92, 40, 96, 92, 93>>
    /\ out1 = <<36, 96, 92, 93>>
    /\ out2 = out1

\* The replacement the mapping table of the design prescribes for one
\* character (the character itself when it is not in the table).
TableReplacement(c) ==
    CASE c = 160 -> <<32>>
      [] c \in {8216, 8217} -> <<39>>
      [] c \in {8220, 8221} -> <<34>>
      [] c \in {8211, 8212, 8722} -> <<45>>
      [] c = 8230 -> <<46, 46, 46>>
      [] c = 8594 -> <<45, 62>>
      [] c = 8658 -> <<61, 62>>
      [] c = 8614 -> <<124, 45, 62>>
      [] c \in {8203, 8204, 8205, 65279} -> <<>>
      [] OTHER -> <<c>>

TableChars ==
    {160, 8216, 8217, 8220, 8221, 8211, 8212, 8722, 8230, 8594, 8658, 8614,
     8203, 8204, 8205, 65279}

CharwiseReplaced(t) == flatten([k \in 1..Len(t) |-> TableReplacement(t[k])])

\* C3: every occurrence of a mapped character is replaced by its specified
\* replacement whatever region it is in (fence, inline code or prose), and no
\* mapped character remains in the sanitized text.  Texts without a backslash
\* have nothing else rewritten, so their output is the characterwise image.
C3_UnicodeEverywhere ==
    pc # "start" =>
        /\ \A k \in 1..Len(out1) : out1[k] \notin TableChars
        /\ ~Contains(text, <<92>>) => out1 = CharwiseReplaced(text)

\* a maps-to arrow inside a fence and an ellipsis inside an inline code span
C3_Witness ==
    /\ pc = "once"
    /\ \/ /\ text = <<96, 96, 96, 8614, 96, 96, 96>>
          /\ out1 = <<96, 96, 96, 124, 45, 62, 96, 96, 96>>
       \/ /\ text = <<96, 8230, 96>>
          /\ out1 = <<96, 46, 46, 46, 96>>

HasDelimiter(s) ==
    \/ Contains(s, <<92, 40>>)
    \/ Contains(s, <<92, 41>>)
    \/ Contains(s, <<92, 91>>)
    \/ Contains(s, <<92, 93>>)

\* C4: an opening fence or an opening backtick with no closer leaves the rest
\* of the text prose, so no \( \) \[ \] survives in that rest.
C4_UnterminatedIsProse ==
    pc # "start" =>
        LET parts == split(out1, Fence)
            last  == parts[Len(parts)]
            subs  == split(last, Backtick)
        IN  /\ (Len(parts) % 2 = 0 /\ ~Contains(last, Backtick))
                  => ~HasDelimiter(last)
            /\ (Len(parts) % 2 = 1 /\ Len(subs) % 2 = 0)
                  => ~HasDelimiter(subs[Len(subs)])

\* C5: outside fences, the text between a backtick and the next backtick is
\* the same in the output as in the input of math-delimiter normalization,
\* and it is the same span (same part, same position among the backticks).
C5_InlineCodeKept ==
    pc # "start" =>
        LET pin  == split(fix_unicode(text), Fence)
            pout == split(out1, Fence)
        IN  /\ Len(pout) = Len(pin)
            /\ \A i \in 1..Len(pin) :
                 (i - 1) % 2 = 0 =>
                    LET sin  == split(pin[i], Backtick)
                        sout == split(pout[i], Backtick)
                    IN  /\ Len(sout) = Len(sin)
                        /\ \A j \in 1..(Len(sin) - 1) :
                             (j - 1) % 2 = 1 => sout[j] = sin[j]

\* \(`\(`  becomes  $`\(`
C5_Witness ==
    /\ pc = "once"
    /\ text = <<92, 40, 96, 92, 40, 96>>
    /\ out1 = <<36, 96, 92, 40, 96>>

\* The text with the backticks of fence body b removed.
StripBody(parts, b) ==
    join([i \in 1..Len(parts) |->
             IF i = b THEN replace(parts[i], Backtick, <<>>) ELSE parts[i]],
         Fence)

\* C6: a closed fence body that contains backticks is output unchanged, and
\* every other part of the text is rewritten exactly as it is when the body
\* has no backtick.
C6_FenceNotEndedByBacktick ==
    pc # "start" =>
        LET pin  == split(fix_unicode(text), Fence)
            pout == split(out1, Fence)
        IN  \A b \in 2..(Len(pin) - 1) :
               ((b - 1) % 2 = 1 /\ Contains(pin[b], Backtick)) =>
                  LET pref == split(sanitize_text(StripBody(pin, b)), Fence)
                  IN  /\ Len(pout) = Len(pin)
                      /\ Len(pref) = Len(pin)
                      /\ pout[b] = pin[b]
                      /\ \A i \in 1..Len(pin) : i # b => pout[i] = pref[i]

\* ````\(```\(`\(  (fence body `\( , then \( in prose and \( after an
\* opening backtick)  becomes  ````\(```$`\(
C6_Witness ==
    /\ pc = "once"
    /\ text = <<96, 96, 96, 96, 92, 40, 96, 96, 96, 92, 40, 96, 92, 40>>
    /\ split(text, Fence) = << <<>>, <<96, 92, 40>>, <<92, 40, 96, 92, 40>> >>
    /\ out1 = <<96, 96, 96, 96, 92, 40, 96, 96, 96, 36, 96, 92, 40>>

(***************************************************************************)
(* Specification SpecNb: sanitize_notebook on a whole notebook.            *)
(***************************************************************************)
NbTokens ==
    { <<92, 40>>,     \* \(
      <<10>>,         \* newline
      <<8203>>,       \* zero-width space
      <<55296>> }     \* U+D800, a lone surrogate (JSON "\ud800")

FragLists == SeqsUpTo(NbTokens, MaxFrags)

Sources ==
    {[is_list |-> TRUE, val |-> f] : f \in FragLists}
        \cup {[is_list |-> FALSE, val |-> flatten(f)] : f \in FragLists}

\* The strings a notebook holds besides the cell sources (keys and values of
\* a cell's metadata and outputs, of the notebook's metadata, ...), which the
\* loop never reads: none, or one with a lone surrogate ("a\ud800").
Rests == { <<>>, << <<97, 55296>> >> }

Cells == [cell_type : {"markdown", "code"}, source : Sources, rest : Rests]

\* The loop handles each cell on its own; two cells are enough to show order.
CellCounts == {0, 1, 2}

Notebooks == UNION {[1..k -> Cells] : k \in CellCounts}

\* nb is nb['cells']; nb_rest is the strings of nb outside 'cells'.
InitNb ==
    /\ nb \in Notebooks
    /\ nb_rest \in Rests
    /\ nb_out = <<>>
    /\ changed = FALSE
    /\ npc = "loaded"
    /\ IdleText
    /\ IdleTex

\* A str that the utf-8 encoder of the output file rejects.
has_surrogate(t) == \E k \in 1..Len(t) : t[k] \in 55296..57343

\* json.dump(nb, f, ensure_ascii=False) on a utf-8 file raises
\* UnicodeEncodeError when any string of the notebook holds a lone surrogate:
\* a cell source, another string of a cell, or a string outside the cells.
dump_fails(cells, rest) ==
    \/ \E k \in 1..Len(rest) : has_surrogate(rest[k])
    \/ \E i \in 1..Len(cells) :
          \/ \E k \in 1..Len(cells[i].rest) : has_surrogate(cells[i].rest[k])
          \/ IF cells[i].source.is_list
             THEN \E j \in 1..Len(cells[i].source.val) :
                      has_surrogate(cells[i].source.val[j])
             ELSE has_surrogate(cells[i].source.val)

\* sanitize_notebook(input_path, output_path): nb and nb_rest are the
\* notebook read from input_path, nb_out the cells of the notebook dumped to
\* output_path (with nb_rest, which the call does not touch).  When the dump
\* raises, the call ends with the exception (npc = "failed"), prints nothing
\* and output_path holds a truncated prefix, which is no notebook (nb_out
\* stays empty); changed is the local variable at that point.
SanitizeNotebook ==
    /\ npc = "loaded"
    /\ LET cells == [i \in 1..Len(nb) |-> sanitize_cell(nb[i])]
       IN  IF dump_fails(cells, nb_rest)
           THEN /\ nb_out' = <<>>
                /\ npc' = "failed"
           ELSE /\ nb_out' = cells
                /\ npc' = "done"
    /\ changed' = (\E i \in 1..Len(nb) : cell_changed(nb[i]))
    /\ UNCHANGED <<nb, nb_rest>>
    /\ UNCHANGED textVars
    /\ UNCHANGED texVars

NextNb == SanitizeNotebook

SpecNb == InitNb /\ [][NextNb]_vars

\* C7 as stated: a fragment-list source is written back as a list whose
\* concatenation is sanitize(S) and ends with a newline exactly when S does;
\* a string source stays a string.
C7_TrailingNewlineIff ==
    npc = "done" =>
        \A i \in 1..Len(nb) :
            nb[i].cell_type = "markdown" =>
                LET S == source_text(nb[i].source)
                    R == source_text(nb_out[i].source)
                IN  /\ nb_out[i].source.is_list = nb[i].source.is_list
                    /\ nb[i].source.is_list =>
                          /\ R = sanitize_text(S)
                          /\ EndsWith(R, Newline) <=> EndsWith(S, Newline)

\* C7 amended: a fragment-list source is written back as a list whose
\* concatenation is sanitize(S) and ends with a newline whenever S does;
\* a string source stays a string.
C7_Reassembly ==
    npc = "done" =>
        \A i \in 1..Len(nb) :
            nb[i].cell_type = "markdown" =>
                LET S == source_text(nb[i].source)
                    R == source_text(nb_out[i].source)
                IN  /\ nb_out[i].source.is_list = nb[i].source.is_list
                    /\ nb[i].source.is_list =>
                          /\ R = sanitize_text(S)
                          /\ EndsWith(S, Newline) => EndsWith(R, Newline)

\* ["\(", "\n"] is rewritten to ["$", "\n", ""]
C7_Witness ==
    /\ npc = "done"
    /\ \E i \in 1..Len(nb) :
          /\ nb[i] = [cell_type |-> "markdown",
                      source |-> [is_list |-> TRUE, val |-> << <<92, 40>>, <<10>> >>],
                      rest |-> <<>>]
          /\ nb_out[i].source = [is_list |-> TRUE, val |-> << <<36>>, <<10>>, <<>> >>]

\* C10: the output has the same cells in the same order; a cell that is not
\* markdown keeps its source, and so does a markdown cell whose sanitized text
\* equals its text (fragment boundaries included); no cell changes its type
\* or anything it holds besides its source.
C10_Frame ==
    npc = "done" =>
        /\ Len(nb_out) = Len(nb)
        /\ \A i \in 1..Len(nb) :
              /\ nb_out[i].cell_type = nb[i].cell_type
              /\ nb_out[i].rest = nb[i].rest
              /\ nb[i].cell_type # "markdown" => nb_out[i] = nb[i]
              /\ (sanitize_text(source_text(nb[i].source)) = source_text(nb[i].source))
                    => nb_out[i] = nb[i]

\* a code cell holding \( and a zero-width space, and a markdown cell
\* ["\n", "\n"] that needs no rewriting, both written back as they were
C10_Witness ==
    /\ npc = "done"
    /\ Len(nb) = 2
    /\ nb[1] = [cell_type |-> "code",
                source |-> [is_list |-> TRUE, val |-> << <<92, 40>>, <<8203>> >>],
                rest |-> <<>>]
    /\ nb[2] = [cell_type |-> "markdown",
                source |-> [is_list |-> TRUE, val |-> << <<10>>, <<10>> >>],
                rest |-> <<>>]
    /\ nb_out = nb

(***************************************************************************)
(* fix_pdf_metadata.py                                                     *)
(***************************************************************************)
\* The text matched by pattern: "\hypersetup{"
Anchor == <<92, 104, 121, 112, 101, 114, 115, 101, 116, 117, 112, 123>>

\* 'pdftitle={Assignment 1}'
TitleKey ==
    <<112, 100, 102, 116, 105, 116, 108, 101, 61, 123, 65, 115, 115, 105, 103,
      110, 109, 101, 110, 116, 32, 49, 125>>

\* What replacement adds after group 1:
\* "\n      pdftitle={Assignment 1},\n      pdfauthor={Onat Dalmaz},\n"
Inserted ==
    <<10, 32, 32, 32, 32, 32, 32, 112, 100, 102, 116, 105, 116, 108, 101, 61,
      123, 65, 115, 115, 105, 103, 110, 109, 101, 110, 116, 32, 49, 125, 44,
      10, 32, 32, 32, 32, 32, 32, 112, 100, 102, 97, 117, 116, 104, 111, 114,
      61, 123, 79, 110, 97, 116, 32, 68, 97, 108, 109, 97, 122, 125, 44, 10>>

\* re.sub(pattern, replacement, content, count=1)
re_sub(content) ==
    LET i == Find(content, Anchor)
    IN  IF i = 0 THEN content
        ELSE SubSeq(content, 1, i + Len(Anchor) - 1)
                \o Inserted
                \o SubSeq(content, i + Len(Anchor), Len(content))

\* f.read() of a file opened in text mode with the default newline=None:
\* "\r\n" and a lone "\r" are read as "\n".
read_text(file) == replace(replace(file, <<13, 10>>, <<10>>), <<13>>, <<10>>)

\* patched_content without the "already has pdftitle" test
patched_content_unguarded(file) == re_sub(read_text(file))

\* The characters of the file after one call.  The file is rewritten from
\* the text that was read only on the "Added" path (f.write puts "\n" out as
\* os.linesep, which is "\n" here); otherwise it is not opened for writing.
patched_content(file) ==
    IF ~Contains(read_text(file), TitleKey) THEN re_sub(read_text(file))
    ELSE file

\* The message one call prints.
message(file) ==
    IF ~Contains(read_text(file), TitleKey) THEN "Added PDF metadata"
    ELSE "PDF metadata already present"

(***************************************************************************)
(* Specification SpecMeta: fix_pdf_metadata called on one file, repeatedly.*)
(***************************************************************************)
Chunks ==
    { Anchor,
      TitleKey,
      <<92, 104, 121, 112, 101, 114>>,   \* \hyper
      <<120>>,                           \* x
      <<10>>,                            \* newline
      <<13>> }                           \* carriage return

TexFiles == {flatten(f) : f \in SeqsUpTo(Chunks, MaxChunks)}

InitMeta ==
    /\ tex \in TexFiles
    /\ tex0 = tex
    /\ tex1 = tex
    /\ msg = "none"
    /\ runs = 0
    /\ IdleText
    /\ IdleNb

\* fix_pdf_metadata(tex_file); tex is the characters stored in the file,
\* tex0 those before the first call, tex1 those after the first call.
FixPdfMetadata ==
    /\ runs < MaxRuns
    /\ tex' = patched_content(tex)
    /\ msg' = message(tex)
    /\ runs' = runs + 1
    /\ tex1' = IF runs = 0 THEN patched_content(tex) ELSE tex1
    /\ UNCHANGED tex0
    /\ UNCHANGED textVars
    /\ UNCHANGED nbVars

NextMeta == FixPdfMetadata

SpecMeta == InitMeta /\ [][NextMeta]_vars

\* The content is c with the block inserted right after the first anchor.
InsertedAfterFirstAnchor(c, r) ==
    \E k \in 1..Len(c) :
        /\ StartsWithAt(c, k, Anchor)
        /\ \A j \in 1..(k - 1) : ~StartsWithAt(c, j, Anchor)
        /\ r = SubSeq(c, 1, k + Len(Anchor) - 1) \o Inserted
                  \o SubSeq(c, k + Len(Anchor), Len(c))

\* The first call left the file as it was, or rewrote it from the text it
\* read (line endings read as "\n") with at most one block, placed right
\* after the first anchor.
InsertedAtMostOnce(before, after) ==
    \/ after = before
    \/ after = read_text(before)
    \/ InsertedAfterFirstAnchor(read_text(before), after)

\* C8 as stated: the second call leaves the content of the first call (the
\* block inserted at most once, right after the first anchor) and reports
\* that the metadata is already present.
C8_SecondRunAlreadyPresent ==
    runs = 2 =>
        /\ tex = tex1
        /\ InsertedAtMostOnce(tex0, tex1)
        /\ msg = "PDF metadata already present"

\* C8 amended: the second call leaves the content of the first call (the
\* block inserted at most once, right after the first anchor); it reports
\* "already present" when the original has the anchor or the title line, and
\* otherwise repeats the first call's message.
C8_Idempotent ==
    runs = 2 =>
        /\ tex = tex1
        /\ InsertedAtMostOnce(tex0, tex1)
        /\ msg = IF Contains(tex0, Anchor) \/ Contains(tex0, TitleKey)
                 THEN "PDF metadata already present"
                 ELSE "Added PDF metadata"

\* x\hypersetup{\hypersetup{ patched once, then called again
C8_Witness ==
    /\ runs = 2
    /\ tex0 = <<120>> \o Anchor \o Anchor
    /\ tex = <<120>> \o Anchor \o Inserted \o Anchor
    /\ msg = "PDF metadata already present"

\* C9: without the anchor the call leaves the content of the file as it was
\* and ends with one of the two informational messages.
C9_NoAnchorNoChange ==
    (runs >= 1 /\ ~Contains(tex0, Anchor)) =>
        /\ tex = tex0
        /\ msg \in {"Added PDF metadata", "PDF metadata already present"}

====
